---- MODULE Spec2Model ----
(***************************************************************************)
(* A model of the promise helpers of my-util (promise.js: poll,            *)
(* allSettled, throwFirstReject, intervalLimiter, sleep, alert), of chunk  *)
(* and sortN (array.js) and of getDateRange, setNow and resetNow (time.js).*)
(* JavaScript values are records; one action is one run-to-completion step *)
(* of the event loop (a synchronous callback invocation, the settlement of *)
(* a promise, the resumption of an async function after an await).         *)
(***************************************************************************)
EXTENDS Integers, Sequences, FiniteSets, TLC

\* ------------------------------------------------------------------ bounds

\* longest input array handed to allSettled / throwFirstReject
MaxLen == 3

\* poll: callback is invoked at most this many times in a run of the model
MaxAttemptIndex == 3

\* poll: the longest delay (ms, or a numeric wait), in milliseconds
MaxDelay == 2

\* intervalLimiter: the clock of a run of the model stops at this millisecond
MaxTime == 4

\* intervalLimiter: the limiter is called at most this many times in a run of the model
MaxIlCalls == 4

\* ------------------------------------------------------- JavaScript values

\* A scalar value (number, string, Error object ...) identified by a tag.
S(x) == [arr |-> FALSE, el |-> <<x>>]
\* An array value whose elements are the scalars tagged by xs.
A(xs) == [arr |-> TRUE, el |-> xs]
\* `undefined`
Undefined == S(0)

\* what a task may fulfil with: a scalar or an array (the latter matters to flatten)
Values == {S(1), A(<<1, 2>>)}
\* what a task may reject with or throw
Reasons == {S(11), S(12)}
\* the Error thrown by chunk
ChunkError == S(13)

\* the elements of the input arrays
Items == {1, 2}

\* JavaScript numbers as far as chunkSize / limit needs them: an integer n,
\* the fraction n + 1/2, Infinity, or a parameter that was not passed.
NumInt(n) == [k |-> "int", n |-> n]
NumFrac(n) == [k |-> "frac", n |-> n]
PosInf == [k |-> "inf", n |-> 0]
NaN == [k |-> "nan", n |-> 0]
Undef == [k |-> "undef", n |-> 0]

\* a default parameter value: `x = d` in a parameter list
Default(x, d) == IF x = Undef THEN d ELSE x

\* chunkSize <= 0
LeqZero(x) ==
  CASE x.k = "int" -> x.n <= 0
    [] x.k = "frac" -> x.n < 0
    [] OTHER -> FALSE

\* Number.isInteger(chunkSize)
IsInteger(x) == x.k = "int"

\* as LenGeq, with current.length > chunkSize
LenGt(len, x) ==
  CASE x.k = "int" -> len > x.n
    [] x.k = "frac" -> len >= x.n + 1
    [] OTHER -> FALSE

\* len >= x for an integer len and a JavaScript number x, as in
\* current.length >= chunkSize (false against Infinity and NaN)
LenGeq(len, x) ==
  CASE x.k = "int" -> len >= x.n
    [] x.k = "frac" -> len >= x.n + 1
    [] OTHER -> FALSE

\* ------------------------------------------------------------------- chunk

\* as ChunkThrows, without the exemption of Infinity
ChunkThrowsOnInfinity(chunkSize) ==
  LET size == Default(chunkSize, PosInf)
  IN LeqZero(size) \/ ~IsInteger(size)

\* the guard of chunk: the size is rejected
ChunkThrows(chunkSize) ==
  LET size == Default(chunkSize, PosInf)
  IN size /= PosInf /\ (LeqZero(size) \/ ~IsInteger(size))

RECURSIVE ChunkLoop(_, _, _, _)
\* the for-of loop of chunk and the trailing push of a non-empty current
ChunkLoop(iterable, chunkSize, chunks, current) ==
  IF iterable = <<>>
    THEN IF Len(current) > 0 THEN Append(chunks, current) ELSE chunks
    ELSE LET pushed == Append(current, Head(iterable))
         IN IF LenGeq(Len(pushed), chunkSize)
              THEN ChunkLoop(Tail(iterable), chunkSize, Append(chunks, pushed), <<>>)
              ELSE ChunkLoop(Tail(iterable), chunkSize, chunks, pushed)

\* chunk(iterable, chunkSize = Infinity), for a size that chunk accepts
Chunk(iterable, chunkSize) ==
  ChunkLoop(iterable, Default(chunkSize, PosInf), <<>>, <<>>)

\* -------------------------------------------- allSettled / throwFirstReject

VARIABLES
  fn,            \* which executor runs: "allSettled", "throwFirstReject", "none" before the call
  array,         \* $1.array
  limit,         \* $1.limit
  useLimiter,    \* whether $1.limiter was passed
  flatten,       \* $1.flatten
  pc,            \* where the async function stands: "start", "map", "await", "limiter", "done", "rejected"
  chunked,       \* const chunked
  k,             \* the index (from 1) of the chunk the for-of loop is at
  j,             \* how many elements of that chunk elements.map has passed to callback
  task,          \* per input index, what callback(element) gave: the promise [st, v], or the exception it threw
  rejOrder,      \* the indices of the rejected promises, in the order they rejected
  calls,         \* the elements callback was invoked with, in order
  results,       \* const results (allSettled)
  returned,      \* let returned (allSettled)
  values,        \* let values
  errors,        \* const errors (allSettled)
  nextId,        \* identity of the next array object to be created
  limiterCalls,  \* the arguments limiter was invoked with, in order
  limiterState,  \* the promise of the last limiter call: "none", "pending", "resolved"
  out            \* the settlement of the promise the executor returned

execVars == <<fn, array, limit, useLimiter, flatten, pc, chunked, k, j, task,
              rejOrder, calls, results, returned, values, errors, nextId,
              limiterCalls, limiterState, out>>

VARIABLES
  ms,            \* poll: $1.ms
  wait,          \* poll: $1.wait
  attempts,      \* poll: $1.attempts
  pollPc,        \* "start", "timer" (resolver scheduled), "calling" (awaiting callback), "resolved", "rejected"
  attemptIndex,  \* let attemptIndex
  pollCalls,     \* the arguments callback was invoked with, in order
  calledAfter,   \* `elapsed` when callback was last invoked
  pollResults,   \* what each invocation of callback came to: [kind, v]
  timerLeft,     \* the milliseconds left before the pending timer is due
  elapsed,       \* the milliseconds since poll was called or callback last completed
  settleCalls,   \* how many times resolve or reject was called
  pollOut        \* the settlement of the promise poll returned

pollVars == <<ms, wait, attempts, pollPc, attemptIndex, pollCalls, calledAfter, pollResults,
              timerLeft, elapsed, settleCalls, pollOut>>

VARIABLES
  ilPc,             \* "none" before intervalLimiter is called, then "made"
  ilLimit,          \* intervalLimiter: limit
  interval,         \* intervalLimiter: interval
  count,            \* intervalLimiter: count
  startTimestamp,   \* intervalLimiter: startTimestamp
  clock,            \* Date.now()
  callPc,           \* per caller: "idle", or "sleeping" at await sleep(...)
  wakeAt,           \* per caller: the time at which its sleep is due to end
  ilCalls           \* the calls of the limiter so far: what was added, when, what
                    \* was passed to sleep if it was called, and the time of return

ilVars == <<ilPc, ilLimit, interval, count, startTimestamp, clock, callPc, wakeAt, ilCalls>>

VARIABLES
  chIterable,   \* chunk: iterable
  chSize,       \* chunk: chunkSize, as passed
  chPc,         \* "start", then "returned" or "threw"
  chOut         \* chunk: what it returned

chunkVars == <<chIterable, chSize, chPc, chOut>>

\* alert: its argument, where the call is, and what it returned or threw
VARIABLES
  alResult, alPc, alOut

alertVars == <<alResult, alPc, alOut>>

\* the state of the synchronous helpers
\* getDateRange: its parameters, where the call is, and the dates returned
VARIABLES
  gdrStart, gdrEnd, gdrLimit, gdrPc, gdrOut

rangeVars == <<gdrStart, gdrEnd, gdrLimit, gdrPc, gdrOut>>

\* the time module: the exported binding `now` (nowHook) and the calls of setNow and
\* resetNow made so far
VARIABLES
  nowHook, nowCalls

nowVars == <<nowHook, nowCalls>>

\* sortN: its parameters, where the call is, what it returned and the array
\* passed as it is after the call
VARIABLES
  snArray, snN, snCompare, snForce, snMutate, snUnsorted, snPc, snOut, snArrayAfter

sortVars ==
  <<snArray, snN, snCompare, snForce, snMutate, snUnsorted, snPc, snOut, snArrayAfter>>

pureVars == <<chunkVars, alertVars, rangeVars, nowVars, sortVars>>

vars == <<execVars, pollVars, ilVars, pureVars>>

\* an array object: its identity and its elements
Arr(id, el) == [id |-> id, el |-> el]
\* a property the returned object does not have
NoArray == Arr(0, <<>>)

NoOut == [kind |-> "none", values |-> NoArray, returned |-> NoArray,
          errors |-> NoArray, results |-> NoArray, reason |-> Undefined]
\* the executor's promise rejects with reason r
RejectedWith(r) == [NoOut EXCEPT !.kind = "rejected", !.reason = r]

IdleTask == [st |-> "idle", v |-> Undefined]
Settled(t) == t.st \in {"fulfilled", "rejected"}

RECURSIVE SumLens(_, _)
\* the number of elements in the first c chunks
SumLens(chunks, c) == IF c = 0 THEN 0 ELSE SumLens(chunks, c - 1) + Len(chunks[c])

\* the input indices of the elements of chunk c
ChunkIdx(c) == (SumLens(chunked, c - 1) + 1)..SumLens(chunked, c)

\* what callback(element) may do: return a pending promise, return a value or a
\* promise that is already settled, or throw
Outcomes ==
  {[kind |-> "pending", v |-> Undefined]}
    \cup {[kind |-> "fulfilled", v |-> v] : v \in Values}
    \cup {[kind |-> "rejected", v |-> r] : r \in Reasons}
    \cup {[kind |-> "throw", v |-> r] : r \in Reasons}

ExecLimits == {Undef} \cup {NumInt(n) : n \in 0..MaxLen}

RECURSIVE SeqsUpTo(_, _)
\* the sequences over S of length at most n
SeqsUpTo(T, n) ==
  IF n = 0 THEN {<<>>}
  ELSE LET shorter == SeqsUpTo(T, n - 1)
       IN shorter \cup {Append(s, x) : s \in {t \in shorter : Len(t) = n - 1}, x \in T}

RECURSIVE Flat(_)
\* Array.prototype.flat(): one level of nested arrays is spliced in
Flat(vs) ==
  IF vs = <<>> THEN <<>>
  ELSE LET v == Head(vs)
       IN (IF v.arr THEN [n \in 1..Len(v.el) |-> S(v.el[n])] ELSE <<v>>) \o Flat(Tail(vs))

ExecInit ==
  /\ fn = "none"
  /\ array = <<>>
  /\ limit = Undef
  /\ useLimiter = FALSE
  /\ flatten = FALSE
  /\ pc = "start"
  /\ chunked = <<>>
  /\ k = 0
  /\ j = 0
  /\ task = <<>>
  /\ rejOrder = <<>>
  /\ calls = <<>>
  /\ results = NoArray
  /\ returned = NoArray
  /\ values = NoArray
  /\ errors = NoArray
  /\ nextId = 1
  /\ limiterCalls = <<>>
  /\ limiterState = "none"
  /\ out = NoOut

\* the result object Promise.allSettled gives for a settled promise, as the
\* destructuring { value, status, reason } reads it
ResultOf(t) ==
  IF t.st = "fulfilled"
    THEN [status |-> "fulfilled", value |-> t.v, reason |-> Undefined]
    ELSE [status |-> "rejected", value |-> Undefined, reason |-> t.v]

\* as ChunkSettled, had the chunk been awaited with Promise.race: one settled promise is enough
ChunkSettledRace(c) == \E i \in ChunkIdx(c) : Settled(task[i])

\* await Promise.allSettled(promises) resumes: every promise of chunk c has settled
ChunkSettled(c) == \A i \in ChunkIdx(c) : Settled(task[i])

\* await Promise.all(promises) resumes with the values: every promise of chunk c fulfilled
ChunkFulfilled(c) == \A i \in ChunkIdx(c) : task[i].st = "fulfilled"

\* as PushResult, with values.push(value) moved under the fulfilled branch
PushResultSkip(acc, result) ==
  [results |-> Append(acc.results, result),
   values |-> IF result.status = "fulfilled"
                THEN Append(acc.values, result.value) ELSE acc.values,
   returned |-> IF result.status = "fulfilled"
                  THEN Append(acc.returned, result.value) ELSE acc.returned,
   errors |-> IF result.status = "fulfilled"
                THEN acc.errors ELSE Append(acc.errors, result.reason)]

\* as PushResult, with errors.unshift(reason) for errors.push(reason)
PushResultUnshift(acc, result) ==
  [results |-> Append(acc.results, result),
   values |-> Append(acc.values, result.value),
   returned |-> IF result.status = "fulfilled"
                  THEN Append(acc.returned, result.value) ELSE acc.returned,
   errors |-> IF result.status = "fulfilled"
                THEN acc.errors ELSE <<result.reason>> \o acc.errors]

\* the body of `for (const result of _results)` for one result, on the four
\* accumulators acc = [results, values, returned, errors]
PushResult(acc, result) ==
  [results |-> Append(acc.results, result),
   values |-> Append(acc.values, result.value),
   returned |-> IF result.status = "fulfilled"
                  THEN Append(acc.returned, result.value) ELSE acc.returned,
   errors |-> IF result.status = "fulfilled"
                THEN acc.errors ELSE Append(acc.errors, result.reason)]

RECURSIVE ForResults(_, _)
\* for (const result of _results) { ... }
ForResults(rs, acc) ==
  IF rs = <<>> THEN acc ELSE ForResults(Tail(rs), PushResult(acc, Head(rs)))

\* _results of chunk c: one result per promise, in the order of `promises`
ChunkResults(c) ==
  LET base == SumLens(chunked, c - 1)
  IN [n \in 1..Len(chunked[c]) |-> ResultOf(task[base + n])]

\* _values of chunk c, in the order of `promises`
ChunkValues(c) ==
  LET base == SumLens(chunked, c - 1)
  IN [n \in 1..Len(chunked[c]) |-> task[base + n].v]

\* allSettled, after the loop: the optional flatten and the returned object
AllSettledReturn(fl, vs, rt, es, rs, id) ==
  LET vs2 == IF fl THEN Arr(id, Flat(vs.el)) ELSE vs
      rt2 == IF fl THEN Arr(id + 1, Flat(rt.el)) ELSE rt
  IN /\ values' = vs2
     /\ returned' = rt2
     /\ errors' = es
     /\ results' = rs
     /\ nextId' = IF fl THEN id + 2 ELSE id
     /\ out' = [kind |-> "resolved", values |-> vs2, returned |-> rt2,
                errors |-> es, results |-> rs, reason |-> Undefined]
     /\ pc' = "done"

\* as TfrResult, with `returned: [...values]`, a copy
TfrResultCopy(vs) ==
  [kind |-> "resolved", values |-> vs, returned |-> Arr(vs.id + 1, vs.el),
   errors |-> NoArray, results |-> NoArray, reason |-> Undefined]

\* the object throwFirstReject returns
TfrResult(vs) ==
  [kind |-> "resolved", values |-> vs, returned |-> vs,
   errors |-> NoArray, results |-> NoArray, reason |-> Undefined]

\* throwFirstReject, after the loop: the optional flatten and the returned object
TfrReturn(fl, vs, id) ==
  LET vs2 == IF fl THEN Arr(id, Flat(vs.el)) ELSE vs
  IN /\ values' = vs2
     /\ nextId' = IF fl THEN id + 1 ELSE id
     /\ out' = TfrResult(vs2)
     /\ pc' = "done"

\* the call of an executor up to its first callback: the accumulators are
\* created and the array is chunked
Call(f, a, l, lim, fl) ==
  /\ pc = "start"
  /\ fn' = f
  /\ array' = a
  /\ limit' = l
  /\ useLimiter' = lim
  /\ flatten' = fl
  /\ UNCHANGED <<rejOrder, calls, limiterCalls, limiterState>>
  /\ IF ChunkThrows(l)
       THEN /\ pc' = "rejected"
            /\ out' = RejectedWith(ChunkError)
            /\ IF f = "allSettled"
                 THEN /\ results' = Arr(1, <<>>)
                      /\ returned' = Arr(2, <<>>)
                      /\ values' = Arr(3, <<>>)
                      /\ errors' = Arr(4, <<>>)
                      /\ nextId' = 5
                 ELSE /\ values' = Arr(1, <<>>)
                      /\ nextId' = 2
                      /\ UNCHANGED <<results, returned, errors>>
            /\ UNCHANGED <<chunked, k, j, task>>
       ELSE /\ chunked' = Chunk(a, l)
            /\ task' = [i \in 1..Len(a) |-> IdleTask]
            /\ j' = 0
            /\ IF a = <<>>
                 THEN /\ k' = 0
                      /\ IF f = "allSettled"
                           THEN AllSettledReturn(fl, Arr(3, <<>>), Arr(2, <<>>),
                                                 Arr(4, <<>>), Arr(1, <<>>), 5)
                           ELSE /\ TfrReturn(fl, Arr(1, <<>>), 2)
                                /\ UNCHANGED <<results, returned, errors>>
                 ELSE /\ k' = 1
                      /\ pc' = "map"
                      /\ out' = NoOut
                      /\ IF f = "allSettled"
                           THEN /\ results' = Arr(1, <<>>)
                                /\ returned' = Arr(2, <<>>)
                                /\ values' = Arr(3, <<>>)
                                /\ errors' = Arr(4, <<>>)
                                /\ nextId' = 5
                           ELSE /\ values' = Arr(1, <<>>)
                                /\ nextId' = 2
                                /\ UNCHANGED <<results, returned, errors>>

\* allSettled({ array, limit, limiter, flatten }, callback) or
\* throwFirstReject({ array, limit, flatten }, callback) is called
ExecCall ==
  /\ UNCHANGED <<pollVars, ilVars, pureVars>>
  /\ pc = "start"
  /\ \E f \in {"allSettled", "throwFirstReject"}, a \in SeqsUpTo(Items, MaxLen),
        l \in ExecLimits, lim \in BOOLEAN, fl \in BOOLEAN :
       /\ f = "throwFirstReject" => ~lim
       /\ Call(f, a, l, lim, fl)

\* elements.map(callback), one element: callback is invoked with the next element
\* of the chunk; a throw leaves the async function, which rejects
Invoke ==
  /\ UNCHANGED <<pollVars, ilVars, pureVars>>
  /\ pc = "map"
  /\ LET i == SumLens(chunked, k - 1) + j + 1
     IN \E o \in Outcomes :
          /\ calls' = Append(calls, chunked[k][j + 1])
          /\ IF o.kind = "throw"
               THEN /\ pc' = "rejected"
                    /\ out' = RejectedWith(o.v)
                    /\ task' = [task EXCEPT ![i] = [st |-> "threw", v |-> o.v]]
                    /\ UNCHANGED <<j, rejOrder>>
               ELSE /\ task' = [task EXCEPT ![i] = [st |-> o.kind, v |-> o.v]]
                    /\ j' = j + 1
                    /\ pc' = IF j + 1 = Len(chunked[k]) THEN "await" ELSE "map"
                    /\ rejOrder' = IF o.kind = "rejected" THEN Append(rejOrder, i) ELSE rejOrder
                    /\ UNCHANGED out
  /\ UNCHANGED <<fn, array, limit, useLimiter, flatten, chunked, k, results, returned,
                 values, errors, nextId, limiterCalls, limiterState>>

\* a pending promise returned by callback settles (never during the synchronous map)
Settle(i) ==
  /\ UNCHANGED <<pollVars, ilVars, pureVars>>
  /\ pc /= "map"
  /\ task[i].st = "pending"
  /\ \/ \E v \in Values :
          /\ task' = [task EXCEPT ![i] = [st |-> "fulfilled", v |-> v]]
          /\ UNCHANGED rejOrder
     \/ \E r \in Reasons :
          /\ task' = [task EXCEPT ![i] = [st |-> "rejected", v |-> r]]
          /\ rejOrder' = Append(rejOrder, i)
  /\ UNCHANGED <<fn, array, limit, useLimiter, flatten, pc, chunked, k, j, calls,
                 results, returned, values, errors, nextId, limiterCalls, limiterState, out>>

\* allSettled resumes after await Promise.allSettled(promises): the results of the
\* chunk are pushed and limiter?.(elements.length) is called and awaited
CollectBody ==
  /\ pc = "await"
  /\ fn = "allSettled"
  /\ ChunkSettled(k)
  /\ LET acc == ForResults(ChunkResults(k),
                           [results |-> results.el, values |-> values.el,
                            returned |-> returned.el, errors |-> errors.el])
     IN /\ results' = Arr(results.id, acc.results)
        /\ values' = Arr(values.id, acc.values)
        /\ returned' = Arr(returned.id, acc.returned)
        /\ errors' = Arr(errors.id, acc.errors)
  /\ IF useLimiter
       THEN /\ limiterCalls' = Append(limiterCalls, Len(chunked[k]))
            /\ limiterState' = "pending"
       ELSE UNCHANGED <<limiterCalls, limiterState>>
  /\ pc' = "limiter"
  /\ UNCHANGED <<fn, array, limit, useLimiter, flatten, chunked, k, j, task, rejOrder,
                 calls, nextId, out>>

\* the same, with a limiter whose state is not followed
Collect ==
  /\ UNCHANGED <<pollVars, ilVars, pureVars>>
  /\ CollectBody

\* the promise the limiter returned resolves (the limiter of this library,
\* intervalLimiter, never rejects)
LimiterResolve ==
  /\ UNCHANGED <<pollVars, ilVars, pureVars>>
  /\ limiterState = "pending"
  /\ limiterState' = "resolved"
  /\ UNCHANGED <<fn, array, limit, useLimiter, flatten, pc, chunked, k, j, task, rejOrder,
                 calls, results, returned, values, errors, nextId, limiterCalls, out>>

\* await limiter?.(elements.length) may resume
LimiterAwaited == limiterState /= "pending"

\* allSettled resumes after the await of the limiter: the next chunk, or the return
Resume ==
  /\ UNCHANGED <<pollVars, ilVars, pureVars>>
  /\ pc = "limiter"
  /\ LimiterAwaited
  /\ IF k < Len(chunked)
       THEN /\ k' = k + 1
            /\ j' = 0
            /\ pc' = "map"
            /\ UNCHANGED <<results, returned, values, errors, nextId, out>>
       ELSE /\ AllSettledReturn(flatten, values, returned, errors, results, nextId)
            /\ UNCHANGED <<k, j>>
  /\ UNCHANGED <<fn, array, limit, useLimiter, flatten, chunked, task, rejOrder,
                 calls, limiterCalls, limiterState>>

\* as FirstRejected, had the rejected promise been looked up by position in the chunk
FirstRejectedByIndex(c) ==
  CHOOSE i \in ChunkIdx(c) :
    /\ task[i].st = "rejected"
    /\ \A i2 \in ChunkIdx(c) : task[i2].st = "rejected" => i <= i2

\* the promise of chunk c that Promise.all saw reject first
FirstRejected(c) == Head(SelectSeq(rejOrder, LAMBDA i : i \in ChunkIdx(c)))

\* throwFirstReject: await Promise.all(promises) throws the reason of the first
\* promise of the chunk to reject; the async function rejects with it
TfrReject ==
  /\ UNCHANGED <<pollVars, ilVars, pureVars>>
  /\ pc = "await"
  /\ fn = "throwFirstReject"
  /\ \E i \in ChunkIdx(k) : task[i].st = "rejected"
  /\ pc' = "rejected"
  /\ out' = RejectedWith(task[FirstRejected(k)].v)
  /\ UNCHANGED <<fn, array, limit, useLimiter, flatten, chunked, k, j, task, rejOrder,
                 calls, results, returned, values, errors, nextId, limiterCalls,
                 limiterState>>

\* throwFirstReject resumes after await Promise.all(promises): the values of the
\* chunk are concatenated, then the next chunk's map or the return
TfrCollect ==
  /\ UNCHANGED <<pollVars, ilVars, pureVars>>
  /\ pc = "await"
  /\ fn = "throwFirstReject"
  /\ ChunkFulfilled(k)
  /\ LET vs == Arr(nextId, values.el \o ChunkValues(k))
     IN IF k < Len(chunked)
          THEN /\ values' = vs
               /\ nextId' = nextId + 1
               /\ k' = k + 1
               /\ j' = 0
               /\ pc' = "map"
               /\ UNCHANGED out
          ELSE /\ TfrReturn(flatten, vs, nextId + 1)
               /\ UNCHANGED <<k, j>>
  /\ UNCHANGED <<fn, array, limit, useLimiter, flatten, chunked, task, rejOrder,
                 calls, results, returned, errors, limiterCalls, limiterState>>

\* -------------------------------------------------------------------- poll

\* the values callback may return or resolve to
JsValues == {"undefined", "null", "false", "0", "", "NaN", "42"}
\* what callback may throw or reject with
PollReasons == {"error", "other error"}
\* new PollError("max attempts reached")
PollError == "PollError: max attempts reached"

\* a !== b on these values: NaN is not equal to anything, itself included
StrictNotEqual(a, b) == a = "NaN" \/ b = "NaN" \/ a /= b

\* as IsTerminal, had the test been the truthiness of result: `if (result)`
IsTruthy(result) == result \notin {"undefined", "null", "false", "0", "", "NaN"}

\* result !== undefined && result !== null && result !== false
IsTerminal(result) ==
  /\ StrictNotEqual(result, "undefined")
  /\ StrictNotEqual(result, "null")
  /\ StrictNotEqual(result, "false")

\* as AttemptsReached, with attemptIndex > attempts
AttemptsExceeded(idx, att) ==
  att.k \in {"int", "frac", "inf", "nan"} /\ LenGeq(idx, [att EXCEPT !.n = att.n + 1])

\* as AttemptsReached, had the check of attempts been left out
AttemptsIgnored(idx, att) == FALSE

\* typeof attempts === "number" && attemptIndex >= attempts
AttemptsReached(idx, att) == att.k \in {"int", "frac", "inf", "nan"} /\ LenGeq(idx, att)

Bool(b) == [k |-> "bool", b |-> b, n |-> 0]
Num(n) == [k |-> "num", b |-> FALSE, n |-> n]
\* the values of $1.wait: absent or false, true, a number of milliseconds
Waits == {Bool(FALSE), Bool(TRUE)} \cup {Num(n) : n \in 0..MaxDelay}
\* the values of $1.attempts
Attempts == {Undef, PosInf, NaN, NumFrac(1)} \cup {NumInt(n) : n \in 0..MaxAttemptIndex}

NoPollOut == [kind |-> "none", v |-> "undefined"]

PollInit ==
  /\ ms = 0
  /\ wait = Bool(FALSE)
  /\ attempts = Undef
  /\ pollPc = "start"
  /\ attemptIndex = 0
  /\ pollCalls = <<>>
  /\ calledAfter = 0
  /\ pollResults = <<>>
  /\ timerLeft = 0
  /\ elapsed = 0
  /\ settleCalls = 0
  /\ pollOut = NoPollOut

\* as NextAttemptIndex, had the increment been left out
SameAttemptIndex(idx) == idx

\* attemptIndex++
NextAttemptIndex(idx) == idx + 1

\* as Catch, had the catch clause swallowed the error and polled on
CatchAndRetry(e) ==
  /\ pollPc' = "timer"
  /\ UNCHANGED <<pollOut, settleCalls>>

\* catch (error) { reject(error) }
Catch(e) ==
  /\ pollPc' = "rejected"
  /\ pollOut' = [kind |-> "rejected", v |-> e]
  /\ settleCalls' = settleCalls + 1

\* as AwaitCallback, had resolver scheduled its next run without awaiting callback
ScheduleWithoutAwait == pollPc' = "timer"

\* await callback(attemptIndex): resolver is suspended until the awaitable completes
AwaitCallback == pollPc' = "calling"

\* as RetryDelay, with setTimeout(resolver, 0)
RetryAtOnce(m) == 0

\* setTimeout(resolver, ms): the delay of the next run of resolver
RetryDelay(m) == m

\* as Resolve, had setTimeout(resolver, ms) not been in an else branch
ResolveAndPollOn(result) ==
  /\ pollPc' = "timer"
  /\ timerLeft' = RetryDelay(ms)
  /\ pollOut' = [kind |-> "resolved", v |-> result]
  /\ settleCalls' = settleCalls + 1

\* resolve(result): the poll is settled and resolver sets no timer
Resolve(result) ==
  /\ pollPc' = "resolved"
  /\ pollOut' = [kind |-> "resolved", v |-> result]
  /\ settleCalls' = settleCalls + 1
  /\ UNCHANGED timerLeft

\* resolver, from its start to the await: the attempts check, then callback(attemptIndex),
\* which returns something to await or throws into the catch clause
Resolver(att, now) ==
  IF AttemptsReached(attemptIndex, att)
    THEN /\ pollPc' = "rejected"
         /\ pollOut' = [kind |-> "rejected", v |-> PollError]
         /\ settleCalls' = settleCalls + 1
         /\ UNCHANGED <<pollCalls, calledAfter, pollResults>>
    ELSE /\ attemptIndex < MaxAttemptIndex
         /\ pollCalls' = Append(pollCalls, attemptIndex)
         /\ calledAfter' = now
         /\ \/ /\ AwaitCallback
               /\ UNCHANGED <<pollResults, pollOut, settleCalls>>
            \/ \E e \in PollReasons :
                 /\ pollResults' = Append(pollResults, [kind |-> "threw", v |-> e])
                 /\ Catch(e)

\* poll({ ms, wait, attempts }, callback): the first run of resolver is scheduled,
\* or made at once
PollCall ==
  /\ pollPc = "start"
  /\ UNCHANGED <<execVars, ilVars, pureVars>>
  /\ \E m \in 0..MaxDelay, w \in Waits, a \in Attempts :
       /\ ms' = m
       /\ wait' = w
       /\ attempts' = a
       /\ elapsed' = 0
       /\ UNCHANGED attemptIndex
       /\ IF w.k = "num"
            THEN /\ timerLeft' = w.n
                 /\ pollPc' = "timer"
                 /\ UNCHANGED <<pollCalls, calledAfter, pollResults, pollOut, settleCalls>>
            ELSE IF w = Bool(TRUE)
                   THEN /\ timerLeft' = m
                        /\ pollPc' = "timer"
                        /\ UNCHANGED <<pollCalls, calledAfter, pollResults, pollOut, settleCalls>>
                   ELSE /\ Resolver(a, 0)
                        /\ UNCHANGED timerLeft

\* a millisecond passes while a timer is pending or callback is running
Tick ==
  /\ pollPc \in {"timer", "calling"}
  /\ timerLeft > 0 \/ elapsed <= MaxDelay
  /\ timerLeft' = IF timerLeft > 0 THEN timerLeft - 1 ELSE 0
  /\ elapsed' = IF elapsed <= MaxDelay THEN elapsed + 1 ELSE elapsed
  /\ UNCHANGED <<ms, wait, attempts, pollPc, attemptIndex, pollCalls, calledAfter,
                 pollResults, settleCalls, pollOut>>
  /\ UNCHANGED <<execVars, ilVars, pureVars>>

\* the timer set by setTimeout(resolver, ...) is due: resolver runs
TimerFire ==
  /\ pollPc = "timer"
  /\ timerLeft = 0
  /\ Resolver(attempts, elapsed)
  /\ UNCHANGED <<ms, wait, attempts, attemptIndex, timerLeft, elapsed>>
  /\ UNCHANGED <<execVars, ilVars, pureVars>>

\* await callback(attemptIndex) resumes: with a result, which resolves the poll or
\* schedules the next run of resolver, or with a rejection, which rejects the poll
PollComplete ==
  /\ pollPc = "calling"
  /\ Len(pollCalls) > Len(pollResults)
  /\ elapsed' = 0
  /\ \/ \E result \in JsValues :
          /\ pollResults' = Append(pollResults, [kind |-> "value", v |-> result])
          /\ attemptIndex' = NextAttemptIndex(attemptIndex)
          /\ IF IsTerminal(result)
               THEN Resolve(result)
               ELSE /\ pollPc' = "timer"
                    /\ timerLeft' = RetryDelay(ms)
                    /\ UNCHANGED <<pollOut, settleCalls>>
     \/ \E e \in PollReasons :
          /\ pollResults' = Append(pollResults, [kind |-> "rejected", v |-> e])
          /\ Catch(e)
          /\ UNCHANGED <<attemptIndex, timerLeft>>
  /\ UNCHANGED <<ms, wait, attempts, pollCalls, calledAfter>>
  /\ UNCHANGED <<execVars, ilVars, pureVars>>

\* An attempt past the MaxAttemptIndex-th, for runs that never end. It is made
\* like any other but left out of pollCalls and pollResults, and attemptIndex
\* stays at MaxAttemptIndex: attempts being at most MaxAttemptIndex, Infinity, NaN
\* or absent, attemptIndex >= attempts is false for every larger index as well.
TimerFireUnlogged ==
  /\ pollPc = "timer"
  /\ timerLeft = 0
  /\ attemptIndex = MaxAttemptIndex
  /\ ~AttemptsReached(attemptIndex, attempts)
  /\ calledAfter' = elapsed
  /\ \/ /\ AwaitCallback
        /\ UNCHANGED <<pollOut, settleCalls>>
     \/ \E e \in PollReasons : Catch(e)
  /\ UNCHANGED <<ms, wait, attempts, attemptIndex, pollCalls, pollResults, timerLeft, elapsed>>
  /\ UNCHANGED <<execVars, ilVars, pureVars>>

\* the await of such an attempt resumes
PollCompleteUnlogged ==
  /\ pollPc = "calling"
  /\ Len(pollCalls) = Len(pollResults)
  /\ elapsed' = 0
  /\ \/ \E result \in JsValues :
          IF IsTerminal(result)
            THEN Resolve(result)
            ELSE /\ pollPc' = "timer"
                 /\ timerLeft' = RetryDelay(ms)
                 /\ UNCHANGED <<pollOut, settleCalls>>
     \/ \E e \in PollReasons :
          /\ Catch(e)
          /\ UNCHANGED timerLeft
  /\ UNCHANGED <<ms, wait, attempts, attemptIndex, pollCalls, calledAfter, pollResults>>
  /\ UNCHANGED <<execVars, ilVars, pureVars>>

\* --------------------------------------------------------- intervalLimiter

\* the callers of one limiter function
Callers == {1, 2}
\* the values of limit that are positive numbers
IlLimits == {NumInt(1), NumInt(2), NumInt(3)}
\* the values of limit that are not: missing, NaN, zero, negative
IlBadLimits == {Undef, NaN, NumInt(0), NumInt(-1)}
\* the values of interval, in milliseconds
Intervals == 0..MaxDelay
\* the values of added
IlAdded == {1, 2}

\* a return time of a call that has not returned
Pending == -1

IlInit ==
  /\ ilPc = "none"
  /\ ilLimit = NumInt(1)
  /\ interval = 0
  /\ count = 0
  /\ startTimestamp = 0
  /\ clock = 0
  /\ callPc = [c \in Callers |-> "idle"]
  /\ wakeAt = [c \in Callers |-> 0]
  /\ ilCalls = <<>>

\* as LimitReached, with count > limit
LimitExceeded(cnt, lim) == LenGeq(cnt, [lim EXCEPT !.n = lim.n + 1])

\* as LimitReached, had a missing limit been taken for 0
LimitReachedOrMissing(cnt, lim) == LenGeq(cnt, Default(lim, NumInt(0)))

\* count >= limit (false against undefined and NaN)
LimitReached(cnt, lim) == LenGeq(cnt, lim)

\* as SleepMs, had the start of the window been left out of the subtraction
SleepMsSinceEpoch(i, currentTimestamp, start) == i - currentTimestamp

\* interval - (currentTimestamp - startTimestamp)
SleepMs(i, currentTimestamp, start) == i - (currentTimestamp - start)

\* sleep(ms), called at time now: the time at which its promise is due to resolve;
\* a negative ms sets no timer
Sleep(m, now) == IF m < 0 THEN now ELSE now + m

\* intervalLimiter({ limit, interval }): count = 0, startTimestamp = Date.now()
IlMake(lim, i) ==
  /\ ilPc = "none"
  /\ ilPc' = "made"
  /\ ilLimit' = lim
  /\ interval' = i
  /\ count' = 0
  /\ startTimestamp' = clock
  /\ UNCHANGED <<clock, callPc, wakeAt, ilCalls>>

\* the limiter function called by caller c with added, up to its return or its await
IlInvoke(c, added) ==
  /\ ilPc = "made"
  /\ callPc[c] = "idle"
  /\ Len(ilCalls) < MaxIlCalls
  /\ IF LimitReached(count + added, ilLimit)
       THEN /\ count' = count + added
            /\ callPc' = [callPc EXCEPT ![c] = "sleeping"]
            /\ wakeAt' = [wakeAt EXCEPT ![c] = Sleep(SleepMs(interval, clock, startTimestamp), clock)]
            /\ ilCalls' = Append(ilCalls, [by |-> c, added |-> added, at |-> clock, slept |-> TRUE,
                                           ms |-> SleepMs(interval, clock, startTimestamp),
                                           ret |-> Pending])
       ELSE /\ count' = count + added
            /\ ilCalls' = Append(ilCalls, [by |-> c, added |-> added, at |-> clock, slept |-> FALSE,
                                           ms |-> 0, ret |-> clock])
            /\ UNCHANGED <<callPc, wakeAt>>
  /\ UNCHANGED <<ilPc, ilLimit, interval, startTimestamp, clock>>

\* the call of caller c that is suspended
Suspended(c) ==
  CHOOSE n \in 1..Len(ilCalls) : ilCalls[n].by = c /\ ilCalls[n].ret = Pending

\* as Reset, had startTimestamp been left as it was
ResetCountOnly ==
  /\ count' = 0
  /\ UNCHANGED startTimestamp

\* startTimestamp = Date.now(); count = 0
Reset ==
  /\ startTimestamp' = clock
  /\ count' = 0

\* await sleep(...) resumes in the call of caller c, which resets the window and returns
IlWake(c) ==
  /\ callPc[c] = "sleeping"
  /\ clock >= wakeAt[c]
  /\ Reset
  /\ callPc' = [callPc EXCEPT ![c] = "idle"]
  /\ ilCalls' = [ilCalls EXCEPT ![Suspended(c)].ret = clock]
  /\ UNCHANGED <<ilPc, ilLimit, interval, clock, wakeAt>>

\* a millisecond passes
IlTime ==
  /\ ilPc = "made"
  /\ clock < MaxTime
  /\ clock' = clock + 1
  /\ UNCHANGED <<ilPc, ilLimit, interval, count, startTimestamp, callPc, wakeAt, ilCalls>>

\* intervalLimiter(): the parameter cannot be destructured, a TypeError is thrown
IlMakeWithout ==
  /\ ilPc = "none"
  /\ ilPc' = "threw"
  /\ UNCHANGED <<ilLimit, interval, count, startTimestamp, clock, callPc, wakeAt, ilCalls>>

\* const limiter = intervalLimiter(...), with any limit or with no argument at all
IlCreateAny ==
  /\ ilPc = "none"
  /\ \/ \E lim \in IlLimits \cup IlBadLimits, i \in Intervals : IlMake(lim, i)
     \/ IlMakeWithout
  /\ UNCHANGED <<execVars, pollVars, pureVars>>

\* const limiter = intervalLimiter({ limit, interval })
IlCreate ==
  /\ ilPc = "none"
  /\ \E lim \in IlLimits, i \in Intervals : IlMake(lim, i)
  /\ UNCHANGED <<execVars, pollVars, pureVars>>

\* await limiter(added), by the one caller of a sequential use: no call is made
\* while another one is suspended
IlCall ==
  /\ \A c \in Callers : callPc[c] = "idle"
  /\ \E added \in IlAdded : IlInvoke(1, added)
  /\ UNCHANGED <<execVars, pollVars, pureVars>>

\* await limiter(1) by any caller that is not suspended in the limiter: a call
\* may be made while the call of another caller is suspended
IlCallShared ==
  /\ \E c \in Callers : IlInvoke(c, 1)
  /\ UNCHANGED <<execVars, pollVars, pureVars>>

\* the suspended call resumes and returns
IlResume ==
  /\ \E c \in Callers : IlWake(c)
  /\ UNCHANGED <<execVars, pollVars, pureVars>>

\* time passes
IlTick ==
  /\ IlTime
  /\ UNCHANGED <<execVars, pollVars, pureVars>>

\* -------------------------------------------------------- chunk, on its own

\* the values of chunkSize: omitted, Infinity, NaN, fractions and integers
ChunkSizes ==
  {Undef, PosInf, NaN} \cup {NumFrac(n) : n \in 0..1} \cup {NumInt(n) : n \in -1..(MaxLen + 1)}

ChunkInit ==
  /\ chIterable = <<>>
  /\ chSize = Undef
  /\ chPc = "start"
  /\ chOut = <<>>

\* chunk(iterable, chunkSize)
ChunkCall ==
  /\ chPc = "start"
  /\ \E it \in SeqsUpTo(Items, MaxLen), size \in ChunkSizes :
       /\ chIterable' = it
       /\ chSize' = size
       /\ IF ChunkThrows(size)
            THEN /\ chPc' = "threw"
                 /\ UNCHANGED chOut
            ELSE /\ chPc' = "returned"
                 /\ chOut' = Chunk(it, size)
  /\ UNCHANGED <<execVars, pollVars, ilVars, alertVars, rangeVars, nowVars, sortVars>>

\* ------------------------------------------------------------------- alert

\* A JavaScript string is the sequence of the pieces of text it is made of, so
\* that concatenation is \o. Escaping inside JSON strings is left out: the
\* texts below hold no character that JSON escapes.
NoObject == [k |-> "undefined"]
Null == [k |-> "null"]
\* an object (identified by id) without an errors property
Plain(id) == [k |-> "object", id |-> id, has |-> FALSE, errors |-> <<>>]
\* an object whose errors property is the array es
WithErrors(id, es) == [k |-> "object", id |-> id, has |-> TRUE, errors |-> es]

\* what an errors array may hold: strings, an Error object, undefined, null
ErrorValues ==
  { [t |-> "string", s |-> "fail"], [t |-> "string", s |-> "bad"],
    [t |-> "Error", s |-> "boom"], [t |-> "undefined", s |-> ""],
    [t |-> "null", s |-> ""] }

\* reading a property of undefined or null throws a TypeError
Nullish(error) == error.t \in {"undefined", "null"}

\* error.toString() of a string and of an Error object
ErrorToString(error) ==
  IF error.t = "Error" THEN <<"Error: ", error.s>> ELSE <<error.s>>

\* as Strings, without the coercion: the errors themselves
Uncoerced(es) == [i \in DOMAIN es |-> <<es[i].s>>]

\* errors.map((error) => error.toString())
Strings(es) == [i \in DOMAIN es |-> ErrorToString(es[i])]

\* the elements of a pretty-printed JSON array of strings: each on a line of
\* its own, indented, quoted, and followed by a comma unless it is the last
RECURSIVE JsonLines(_, _)
JsonLines(strings, indent) ==
  IF strings = <<>> THEN <<>>
  ELSE <<"\n", indent, "\"">> \o Head(strings) \o <<"\"">>
       \o (IF Len(strings) > 1 THEN <<",">> ELSE <<>>)
       \o JsonLines(Tail(strings), indent)

\* JSON.stringify(strings, undefined, 2) of an array of strings
JsonStringify(strings) ==
  IF strings = <<>> THEN <<"[]">>
  ELSE <<"[">> \o JsonLines(strings, "  ") \o <<"\n", "]">>

\* const { errors } = result ?? {}: the errors array, empty when there is none
ErrorsOf(result) ==
  IF result.k = "object" /\ result.has THEN result.errors ELSE <<>>

\* as Raises, for an errors property of any length
RaisesOnProperty(result) == result.k = "object" /\ result.has

\* errors && errors.length
Raises(result) == ErrorsOf(result) # <<>>

AlertResults ==
  {NoObject, Null, Plain(1)}
  \cup {WithErrors(1, es) : es \in SeqsUpTo(ErrorValues, MaxLen)}

AlertInit ==
  /\ alResult = NoObject
  /\ alPc = "start"
  /\ alOut = NoObject

\* alert(result)
AlertCall ==
  /\ alPc = "start"
  /\ \E result \in AlertResults :
       /\ alResult' = result
       /\ IF Raises(result)
            THEN /\ alPc' = "threw"
                 /\ alOut' =
                      IF \E i \in DOMAIN ErrorsOf(result) : Nullish(ErrorsOf(result)[i])
                        THEN [name |-> "TypeError", message |-> <<>>]
                        ELSE [name |-> "Error",
                              message |-> JsonStringify(Strings(ErrorsOf(result)))]
            ELSE /\ alPc' = "returned"
                 /\ alOut' = result
  /\ UNCHANGED <<execVars, pollVars, ilVars, chunkVars, rangeVars, nowVars, sortVars>>

\* ------------------------------------------------------------ getDateRange

\* A YYYY-MM-DD date string is the record of its three numbers; with four-digit
\* years and zero-padded months and days, comparing the strings is comparing
\* the numbers from the left.
Date(y, m, d) == [year |-> y, month |-> m, day |-> d]

\* start <= end on date strings
DateLeq(a, b) ==
  \/ a.year < b.year
  \/ a.year = b.year /\ a.month < b.month
  \/ a.year = b.year /\ a.month = b.month /\ a.day <= b.day

\* the calendar of Date.UTC / setUTCDate
IsLeapYear(y) == (y % 4 = 0 /\ y % 100 # 0) \/ y % 400 = 0

DaysInMonth(y, m) ==
  CASE m = 2 -> IF IsLeapYear(y) THEN 29 ELSE 28
    [] m \in {4, 6, 9, 11} -> 30
    [] OTHER -> 31

\* addDays(dateString, { days: 1 }): the next day of the calendar
AddOneDay(date) ==
  IF date.day < DaysInMonth(date.year, date.month)
    THEN Date(date.year, date.month, date.day + 1)
  ELSE IF date.month < 12 THEN Date(date.year, date.month + 1, 1)
  ELSE Date(date.year + 1, 1, 1)

\* { limit = 1000 }
DefaultLimit == 1000

\* the while loop of getDateRange: push, advance, then test the limit
RECURSIVE RangeLoop(_, _, _, _)
RangeLoop(start, end, lim, dates) ==
  IF ~DateLeq(start, end) THEN dates
  ELSE IF LenGeq(Len(dates) + 1, lim) THEN Append(dates, start)
  ELSE RangeLoop(AddOneDay(start), end, lim, Append(dates, start))

\* getDateRange(start, end, { limit })
GetDateRange(start, end, lim) ==
  RangeLoop(start, end, Default(lim, NumInt(DefaultLimit)), <<>>)

\* the dates passed: around the end of a year, of a 31-day month and of
\* February in a leap year
RangeDates ==
  { Date(2023, 12, 30), Date(2023, 12, 31), Date(2024, 1, 1),
    Date(2024, 1, 31), Date(2024, 2, 1),
    Date(2024, 2, 28), Date(2024, 2, 29), Date(2024, 3, 1), Date(2024, 3, 2) }

\* the limits passed: omitted, Infinity, fractions and integers
RangeLimits ==
  {Undef, PosInf, NumFrac(1)} \cup {NumInt(n) : n \in -1..MaxLen}

RangeInit ==
  /\ gdrStart = Date(2024, 1, 1)
  /\ gdrEnd = Date(2024, 1, 1)
  /\ gdrLimit = Undef
  /\ gdrPc = "start"
  /\ gdrOut = <<>>

\* getDateRange(start, end, { limit })
RangeCall ==
  /\ gdrPc = "start"
  /\ \E start \in RangeDates, end \in RangeDates, lim \in RangeLimits :
       /\ gdrStart' = start
       /\ gdrEnd' = end
       /\ gdrLimit' = lim
       /\ gdrOut' = GetDateRange(start, end, lim)
  /\ gdrPc' = "returned"
  /\ UNCHANGED <<execVars, pollVars, ilVars, chunkVars, alertVars, nowVars, sortVars>>

\* ------------------------------------------------------- setNow / resetNow

\* a JavaScript value by what typeof gives for it
Value(t, id) == [t |-> t, id |-> id]

\* const myNow = () => new Date()
myNow == Value("function", "myNow")

\* what setNow may be called with: two functions, a number, null, undefined
NowCallbacks ==
  { Value("function", "f"), Value("function", "g"), Value("number", "123"),
    Value("object", "null"), Value("undefined", "undefined") }

\* as IsFunction, for a check of callback == null
IsNotNullish(callback) == callback.id \notin {"null", "undefined"}

\* typeof callback === "function"
IsFunction(callback) == callback.t = "function"

\* the number of setNow / resetNow calls followed
MaxNowCalls == 4

\* export let now = myNow
NowInit ==
  /\ nowHook = myNow
  /\ nowCalls = <<>>

\* setNow(callback)
setNow ==
  /\ Len(nowCalls) < MaxNowCalls
  /\ \E callback \in NowCallbacks :
       IF ~IsFunction(callback)
         THEN /\ nowCalls' = Append(nowCalls,
                   [op |-> "setNow", callback |-> callback,
                    threw |-> "now must be a function"])
              /\ UNCHANGED nowHook
         ELSE /\ nowHook' = callback
              /\ nowCalls' = Append(nowCalls,
                   [op |-> "setNow", callback |-> callback,
                    threw |-> ""])
  /\ UNCHANGED <<execVars, pollVars, ilVars, chunkVars, alertVars, rangeVars, sortVars>>

\* resetNow()
resetNow ==
  /\ Len(nowCalls) < MaxNowCalls
  /\ nowHook' = myNow
  /\ nowCalls' = Append(nowCalls,
       [op |-> "resetNow", callback |-> myNow, threw |-> ""])
  /\ UNCHANGED <<execVars, pollVars, ilVars, chunkVars, alertVars, rangeVars, sortVars>>

\* ------------------------------------------------------------------- sortN

\* the longest array passed to sortN
MaxSortLen == 5

\* the sort keys of the elements
SortKeys == 1..3

\* the comparators passed: ascending() and descending() on numbers
Comparators == {"ascending", "descending"}

\* compare(a, b): negative, zero or positive
Compare(compare, a, b) ==
  IF a = b THEN 0
  ELSE IF (compare = "ascending") = (a < b) THEN -1 ELSE 1

\* array.sort(compare): a stable sort, here by insertion
RECURSIVE SortBy(_, _)
SortBy(arr, compare) ==
  IF arr = <<>> THEN <<>>
  ELSE LET rest == SortBy(SubSeq(arr, 1, Len(arr) - 1), compare)
           x == arr[Len(arr)]
           before == SelectSeq(rest, LAMBDA e : Compare(compare, e, x) <= 0)
           after == SelectSeq(rest, LAMBDA e : Compare(compare, e, x) > 0)
       IN  before \o <<x>> \o after

\* heap[i] with the indices of JavaScript, from 0
At(heap, i) == heap[i + 1]

\* the three assignments that swap heap[largest] and heap[i]
Swap(heap, i, largest) ==
  [heap EXCEPT ![i + 1] = heap[largest + 1], ![largest + 1] = heap[i + 1]]

\* siftDown(heap, i, compare, length)
RECURSIVE siftDown(_, _, _, _)
siftDown(heap, i, compare, length) ==
  LET left == 2 * i + 1
      right == left + 1
      first == IF left < length /\ Compare(compare, At(heap, left), At(heap, i)) > 0
                 THEN left ELSE i
      largest == IF right < length /\ Compare(compare, At(heap, right), At(heap, first)) > 0
                   THEN right ELSE first
  IN  IF largest = i THEN heap
      ELSE siftDown(Swap(heap, i, largest), largest, compare, length)

\* the loop of maxHeapify, from index i down to 0
RECURSIVE HeapifyFrom(_, _, _, _)
HeapifyFrom(heap, i, compare, length) ==
  IF i < 0 THEN heap
  ELSE HeapifyFrom(siftDown(heap, i, compare, length), i - 1, compare, length)

\* maxHeapify(heap, compare, length)
maxHeapify(heap, compare, length) ==
  HeapifyFrom(heap, (length \div 2) - 1, compare, length)

\* as Replaces, keeping the larger elements
ReplacesLarger(compare, element, top) == Compare(compare, element, top) > 0

\* compare(element, heap[0]) < 0
Replaces(compare, element, top) == Compare(compare, element, top) < 0

\* the loop over array[N], array[N + 1], ... : i is the JavaScript index
RECURSIVE SelectFrom(_, _, _, _, _)
SelectFrom(heap, arr, i, compare, N) ==
  IF i >= Len(arr) THEN heap
  ELSE IF Replaces(compare, At(arr, i), At(heap, 0))
    THEN SelectFrom(siftDown([heap EXCEPT ![1] = At(arr, i)], 0, compare, N),
                    arr, i + 1, compare, N)
  ELSE SelectFrom(heap, arr, i + 1, compare, N)

\* !(N >= 0) || !Number.isInteger(N), for an integer N
SortNThrows(N) == ~(N >= 0)

\* the heap-based method is taken: force, or a large array with a small N
TakesHeapPath(arr, N, force) ==
  ~(~force /\ Len(arr) <= 100 /\ 10 * N >= Len(arr))

\* sortN(array, { N, compare, unsorted, force, mutate }) for a valid N: what
\* it returns, whether by the heap, and the array passed as it is afterwards
sortN(arr, N, compare, unsorted, force, mutate) ==
  IF N = 0
    THEN [out |-> <<>>, heap |-> FALSE, array |-> IF mutate THEN <<>> ELSE arr]
  ELSE IF N >= Len(arr)
    THEN LET sorted == SortBy(arr, compare)
         IN  [out |-> sorted, heap |-> FALSE, array |-> IF mutate THEN sorted ELSE arr]
  ELSE IF ~TakesHeapPath(arr, N, force)
    THEN LET sorted == SubSeq(SortBy(arr, compare), 1, N)
         IN  [out |-> sorted, heap |-> FALSE, array |-> IF mutate THEN sorted ELSE arr]
  ELSE LET heap == IF mutate THEN arr ELSE SubSeq(arr, 1, N)
           selected == SelectFrom(maxHeapify(heap, compare, N), arr, N, compare, N)
           cut == SubSeq(selected, 1, N)
           result == IF unsorted THEN cut ELSE SortBy(cut, compare)
       IN  [out |-> result, heap |-> TRUE, array |-> IF mutate THEN result ELSE arr]

SortInit ==
  /\ snArray = <<>>
  /\ snN = 0
  /\ snCompare = "ascending"
  /\ snForce = FALSE
  /\ snMutate = FALSE
  /\ snUnsorted = FALSE
  /\ snPc = "start"
  /\ snOut = [out |-> <<>>, heap |-> FALSE, array |-> <<>>]
  /\ snArrayAfter = <<>>

\* sortN(array, { N, compare, unsorted, force, mutate })
SortNCall ==
  /\ snPc = "start"
  /\ \E arr \in SeqsUpTo(SortKeys, MaxSortLen), N \in -1..(MaxSortLen + 1),
        compare \in Comparators, unsorted \in BOOLEAN, force \in BOOLEAN, mutate \in BOOLEAN :
       /\ snArray' = arr
       /\ snN' = N
       /\ snCompare' = compare
       /\ snForce' = force
       /\ snMutate' = mutate
       /\ snUnsorted' = unsorted
       /\ IF SortNThrows(N)
            THEN /\ snPc' = "threw"
                 /\ snArrayAfter' = arr
                 /\ UNCHANGED snOut
            ELSE /\ snPc' = "returned"
                 /\ snOut' = sortN(arr, N, compare, unsorted, force, mutate)
                 /\ snArrayAfter' = sortN(arr, N, compare, unsorted, force, mutate).array
  /\ UNCHANGED <<execVars, pollVars, ilVars, chunkVars, alertVars, rangeVars, nowVars>>

\* ------------------------------------- allSettled with an interval limiter

\* allSettled({ array, limit, limiter }, callback), limiter being the interval
\* limiter made before; the elements of the array are all the same here
LtdCall ==
  /\ ilPc = "made"
  /\ pc = "start"
  /\ \E a \in SeqsUpTo({1}, MaxLen), l \in ExecLimits :
       Call("allSettled", a, l, TRUE, FALSE)
  /\ UNCHANGED <<pollVars, ilVars, pureVars>>

\* allSettled resumes after await Promise.allSettled(promises): the results of the
\* chunk are pushed and limiter(elements.length) runs up to its return or its await
LtdCollect ==
  /\ CollectBody
  /\ IlInvoke(1, Len(chunked[k]))
  /\ UNCHANGED <<pollVars, pureVars>>

\* the promise of the limiter call resolves, once the call has returned
LtdLimiterResolve ==
  /\ callPc[1] = "idle"
  /\ LimiterResolve

\* a millisecond passes, while allSettled waits for its tasks or for the limiter
\* (its synchronous steps take no time)
LtdTick ==
  /\ pc \in {"await", "limiter"}
  /\ IlTick

\* ---------------------------------------------------------- specifications

Init == ExecInit /\ PollInit /\ IlInit /\ ChunkInit /\ AlertInit /\ RangeInit /\ NowInit /\ SortInit

PollNext ==
  \/ PollCall
  \/ Tick
  \/ TimerFire
  \/ PollComplete

ExecNext ==
  \/ ExecCall
  \/ Invoke
  \/ \E i \in DOMAIN task : Settle(i)
  \/ Collect
  \/ LimiterResolve
  \/ Resume
  \/ TfrReject
  \/ TfrCollect

\* the executors: one call of allSettled or throwFirstReject
SpecExec == Init /\ [][ExecNext]_vars

LimiterNext ==
  \/ IlCreate
  \/ IlCall
  \/ IlResume
  \/ IlTick

\* one interval limiter, called sequentially
SpecLimiter == Init /\ [][LimiterNext]_vars

LimiterAnyNext ==
  \/ IlCreateAny
  \/ IlCall
  \/ IlResume
  \/ IlTick

\* the same, for any configuration
SpecLimiterAny == Init /\ [][LimiterAnyNext]_vars

LimiterSharedNext ==
  \/ IlCreate
  \/ IlCallShared
  \/ IlResume
  \/ IlTick

\* one interval limiter shared by two callers whose calls may overlap
SpecLimiterShared == Init /\ [][LimiterSharedNext]_vars

LtdNext ==
  \/ IlCreate
  \/ LtdCall
  \/ Invoke
  \/ \E i \in DOMAIN task : Settle(i)
  \/ LtdCollect
  \/ IlResume
  \/ LtdLimiterResolve
  \/ Resume
  \/ LtdTick

\* one call of allSettled with an interval limiter as its limiter
SpecLimited == Init /\ [][LtdNext]_vars

ChunkNext == ChunkCall

\* one call of chunk
SpecChunk == Init /\ [][ChunkNext]_vars

\* one call of alert
SpecAlert == Init /\ [][AlertCall]_vars

\* one call of getDateRange
SpecRange == Init /\ [][RangeCall]_vars

NowNext ==
  \/ setNow
  \/ resetNow

\* any sequence of setNow and resetNow calls
SpecNow == Init /\ [][NowNext]_vars

\* one call of sortN
SpecSort == Init /\ [][SortNCall]_vars

\* one call of poll
SpecPoll == Init /\ [][PollNext]_vars

PollOnNext ==
  \/ PollCall
  \/ Tick
  \/ TimerFire
  \/ PollComplete
  \/ TimerFireUnlogged
  \/ PollCompleteUnlogged

\* poll with timers that fire and a callback whose every invocation completes,
\* in runs of any length
SpecPollFair ==
  /\ Init
  /\ [][PollOnNext]_vars
  /\ WF_vars(Tick) /\ WF_vars(TimerFire) /\ WF_vars(PollComplete)
  /\ WF_vars(TimerFireUnlogged) /\ WF_vars(PollCompleteUnlogged)

\* ------------------------------------------------------------------ claims

\* the input indices whose promise is pending
InFlight == {i \in DOMAIN task : task[i].st = "pending"}

\* the run got past chunk: the limit was a valid chunk size
Chunked == fn /= "none" /\ ~ChunkThrows(limit)

\* the v of the tasks in state st, in input order
PickValues(st) ==
  LET picked == SelectSeq(task, LAMBDA t : t.st = st)
  IN [n \in 1..Len(picked) |-> picked[n].v]

\* C1: in allSettled no callback of a later chunk is invoked before every promise
\* of each earlier chunk has settled, and with a numeric limit L at most L promises
\* are pending at any moment.
C1_ChunksOneAfterAnother ==
  (fn = "allSettled" /\ Chunked) =>
    /\ \A c \in 1..Len(chunked) :
         Len(calls) > SumLens(chunked, c) => \A i \in ChunkIdx(c) : Settled(task[i])
    /\ limit.k = "int" => Cardinality(InFlight) <= limit.n

\* C1 witness: with limit 2 both promises of the first chunk settled, one rejected,
\* and the promise of the third item, alone in the second chunk, is pending
C1_Witness ==
  /\ fn = "allSettled"
  /\ limit = NumInt(2)
  /\ Len(array) = 3
  /\ task[1].st = "rejected"
  /\ task[2].st = "fulfilled"
  /\ task[3].st = "pending"

\* C2: when allSettled without flatten resolves, results and values have one entry
\* per input item, entry i being the outcome of the callback invoked with item i:
\* results[i] its status and value or reason, values[i] its value or undefined.
C2_OneOutcomePerItem ==
  (fn = "allSettled" /\ ~flatten /\ pc = "done") =>
    /\ Len(out.results.el) = Len(array)
    /\ Len(out.values.el) = Len(array)
    /\ calls = array
    /\ \A i \in 1..Len(array) :
         /\ out.results.el[i].status = task[i].st
         /\ task[i].st = "fulfilled" =>
              /\ out.results.el[i].value = task[i].v
              /\ out.values.el[i] = task[i].v
         /\ task[i].st = "rejected" =>
              /\ out.results.el[i].reason = task[i].v
              /\ out.values.el[i] = Undefined

\* C2 witness: allSettled resolved for three items in two chunks, the second rejected
C2_Witness ==
  /\ fn = "allSettled"
  /\ ~flatten
  /\ pc = "done"
  /\ array = <<1, 2, 1>>
  /\ Len(chunked) = 2
  /\ task[1].st = "fulfilled"
  /\ task[2].st = "rejected"
  /\ task[3].st = "fulfilled"
  /\ task[1].v /= task[3].v

\* C3: when allSettled without flatten resolves, returned is the fulfilled values
\* and errors the rejection reasons, each in input order, and their lengths add up
\* to the length of the input.
C3_ReturnedAndErrorsInInputOrder ==
  (fn = "allSettled" /\ ~flatten /\ pc = "done") =>
    /\ out.returned.el = PickValues("fulfilled")
    /\ out.errors.el = PickValues("rejected")
    /\ Len(out.returned.el) + Len(out.errors.el) = Len(array)

\* C3 witness: resolved over two chunks; the second promise rejected before the
\* first did, with another reason, and the third rejected too
C3_Witness ==
  /\ fn = "allSettled"
  /\ ~flatten
  /\ pc = "done"
  /\ Len(chunked) = 2
  /\ rejOrder = <<2, 1, 3>>
  /\ task[1].v /= task[2].v

\* C4: allSettled never rejects because a task failed: once past chunk, it does not
\* reject.
C4_NeverFailsOnTaskFailure ==
  (fn = "allSettled" /\ Chunked) => out.kind /= "rejected"

\* C5: with a limiter, allSettled invokes it once per chunk with the chunk's length,
\* after the chunk settled; the next chunk's callbacks wait for the limiter's
\* promise; when the run is over the limiter was invoked for every chunk.
C5_LimiterOncePerChunk ==
  (fn = "allSettled" /\ useLimiter /\ Chunked) =>
    /\ Len(limiterCalls) <= Len(chunked)
    /\ \A c \in 1..Len(limiterCalls) :
         /\ limiterCalls[c] = Len(chunked[c])
         /\ \A i \in ChunkIdx(c) : Settled(task[i])
    /\ \A c \in 1..Len(chunked) :
         Len(calls) > SumLens(chunked, c) =>
           /\ Len(limiterCalls) >= c
           /\ Len(limiterCalls) = c => limiterState = "resolved"
    /\ pc \in {"done", "rejected"} =>
         /\ Len(limiterCalls) = Len(chunked)
         /\ SumLens(chunked, Len(chunked)) = Len(array)

\* C6 as claimed: when throwFirstReject has rejected (no callback having thrown), it
\* rejected with the reason of every task that rejected, and no callback of a later
\* chunk was invoked.
C6_RejectsWithThatTasksReason ==
  (/\ fn = "throwFirstReject"
   /\ Chunked
   /\ out.kind = "rejected"
   /\ \A i \in DOMAIN task : task[i].st /= "threw") =>
    \A c \in 1..Len(chunked) : \A i \in ChunkIdx(c) :
      task[i].st = "rejected" =>
        /\ out.reason = task[i].v
        /\ Len(calls) <= SumLens(chunked, c)

\* C6 amended: a throwFirstReject run in which a promise of a chunk rejected (or a
\* callback threw) never resolves and never invokes a callback of a later chunk; when
\* it has rejected, the reason is the exception a callback threw, else the reason
\* of the promise that rejected first.
C6_RejectsWithFirstReason ==
  (fn = "throwFirstReject" /\ Chunked) =>
    /\ \A c \in 1..Len(chunked) : \A i \in ChunkIdx(c) :
         task[i].st \in {"rejected", "threw"} =>
           /\ out.kind /= "resolved"
           /\ pc \in {"map", "await", "rejected"}
           /\ Len(calls) <= SumLens(chunked, c)
    /\ out.kind = "rejected" =>
         IF \E i \in DOMAIN task : task[i].st = "threw"
           THEN \E i \in DOMAIN task : task[i].st = "threw" /\ out.reason = task[i].v
           ELSE rejOrder /= <<>> /\ out.reason = task[Head(rejOrder)].v

\* C6 witness: rejected in the first of two chunks, where the second promise
\* rejected before the first did and with another reason
C6_Witness ==
  /\ fn = "throwFirstReject"
  /\ out.kind = "rejected"
  /\ Len(chunked) = 2
  /\ rejOrder = <<2, 1>>
  /\ task[1].v /= task[2].v
  /\ out.reason = task[2].v

\* C7: when throwFirstReject resolves, returned is the very array values is, and
\* without flatten values[i] is the value the callback invoked with item i
\* fulfilled with.
C7_ValuesInInputOrder ==
  (fn = "throwFirstReject" /\ pc = "done") =>
    /\ out.returned.id = out.values.id
    /\ out.returned.el = out.values.el
    /\ ~flatten =>
         /\ calls = array
         /\ Len(out.values.el) = Len(array)
         /\ \A i \in 1..Len(array) :
              task[i].st = "fulfilled" /\ out.values.el[i] = task[i].v

\* C7 witness: resolved without flatten for three items in two chunks whose values differ
C7_Witness ==
  /\ fn = "throwFirstReject"
  /\ pc = "done"
  /\ ~flatten
  /\ array = <<2, 1, 1>>
  /\ Len(chunked) = 2
  /\ task[1].v /= task[2].v
  /\ task[2].v /= task[3].v

\* C8: no retry: callback is invoked with the items in input order, never twice for
\* an item; a run of allSettled that is over invoked it for every item.
C8_InvokedOncePerItem ==
  Chunked =>
    /\ Len(calls) <= Len(array)
    /\ \A n \in 1..Len(calls) : calls[n] = array[n]
    /\ (fn = "allSettled" /\ pc \in {"done", "rejected"}) => calls = array

\* the results that mean "keep polling"
Sentinels == {"undefined", "null", "false"}

\* C9: an attempt of poll whose awaited result is not undefined, null or false is
\* the last one and resolves the poll with that very value; an attempt whose result
\* is one of the three does not resolve it: another attempt follows, or the
\* rejection with PollError.
C9_ResolvesIffNotSentinel ==
  /\ \A n \in 1..Len(pollResults) :
       pollResults[n].kind = "value" =>
         IF pollResults[n].v \in Sentinels
           THEN n = Len(pollResults) =>
                  /\ pollPc \in {"timer", "calling", "rejected"}
                  /\ pollPc = "rejected" => pollOut.v = PollError
           ELSE /\ n = Len(pollResults)
                /\ Len(pollCalls) = n
                /\ pollPc = "resolved"
                /\ pollOut = [kind |-> "resolved", v |-> pollResults[n].v]
  /\ pollPc = "resolved" =>
       /\ pollResults /= <<>>
       /\ pollResults[Len(pollResults)].kind = "value"
       /\ pollResults[Len(pollResults)].v \notin Sentinels

\* C9 witness: callback returned NaN on the first attempt and the poll resolved
\* with it after that single invocation
C9_Witness ==
  /\ pollPc = "resolved"
  /\ pollCalls = <<0>>
  /\ pollResults = <<[kind |-> "value", v |-> "NaN"]>>
  /\ pollOut.v = "NaN"

\* C10: the n-th invocation of callback in a poll receives n - 1.
C10_AttemptIndexCounts ==
  \A n \in 1..Len(pollCalls) : pollCalls[n] = n - 1

\* C10 witness: three invocations, the first two of which returned a sentinel
C10_Witness ==
  /\ Len(pollCalls) = 3
  /\ Len(pollResults) >= 2
  /\ pollResults[1].v \in Sentinels
  /\ pollResults[2].v \in Sentinels

C12_RejectsWithTaskError ==
  \A n \in 1..Len(pollResults) :
    pollResults[n].kind \in {"threw", "rejected"} =>
      /\ n = Len(pollResults)
      /\ Len(pollCalls) = n
      /\ pollPc = "rejected"
      /\ pollOut = [kind |-> "rejected", v |-> pollResults[n].v]

\* C12 witness: callback threw on its first invocation and the poll rejected with
\* the error thrown, after that single invocation
C12_Witness ==
  /\ pollCalls = <<0>>
  /\ pollResults = <<[kind |-> "threw", v |-> "other error"]>>
  /\ pollPc = "rejected"
  /\ pollOut.v = "other error"

\* C13: at most one invocation of callback is in flight at any time, and one is in
\* flight exactly while resolver is suspended at its await; while a timer for the
\* next run of resolver is pending, every invocation made so far has completed.
C13_OneInvocationInFlight ==
  /\ Len(pollCalls) - Len(pollResults) \in {0, 1}
  /\ Len(pollCalls) - Len(pollResults) = 1 <=> pollPc = "calling"
  /\ pollPc = "timer" => Len(pollCalls) = Len(pollResults)

\* C13 witness: the second invocation has been running for longer than ms = 1
\* and is still the only one in flight
C13_Witness ==
  /\ pollPc = "calling"
  /\ Len(pollCalls) = 2
  /\ Len(pollResults) = 1
  /\ ms = 1
  /\ elapsed - calledAfter > ms

\* C14: the first invocation of callback is made with no delay when wait is false
\* (its default), no earlier than ms after the call of poll when wait is true, and
\* no earlier than wait milliseconds after it when wait is a number; every later
\* invocation is made no earlier than ms after the previous one completed.
C14_Cadence ==
  /\ Len(pollCalls) = 1 =>
       /\ wait = Bool(FALSE) => calledAfter = 0
       /\ wait = Bool(TRUE) => calledAfter >= ms
       /\ wait.k = "num" => calledAfter >= wait.n
  /\ Len(pollCalls) >= 2 => calledAfter >= ms
  /\ (pollPc = "timer" /\ pollResults /= <<>>) => elapsed + timerLeft >= ms

\* C14 witness: the first invocation was made without delay, and the second one
\* ms = 2 milliseconds after the first had completed
C14_Witness ==
  /\ wait = Bool(FALSE)
  /\ Len(pollCalls) = 2
  /\ Len(pollResults) = 1
  /\ ms = 2
  /\ calledAfter = 2

\* C15, as stated: with attempts any value of type number and a callback whose
\* every invocation completes, a poll that was called eventually settles.
C15_NumericAttemptsSettles ==
  (pollPc /= "start" /\ attempts.k \in {"int", "frac", "inf", "nan"})
    ~> (pollPc \in {"resolved", "rejected"})

\* C15, amended: with attempts a finite number and a callback whose every
\* invocation completes, a poll that was called eventually settles: it resolves
\* with a terminal value, or rejects with the error of callback or the PollError.
C15_FiniteAttemptsSettles ==
  (pollPc /= "start" /\ attempts.k \in {"int", "frac"})
    ~> (pollPc \in {"resolved", "rejected"} /\ settleCalls = 1 /\ pollOut /= NoPollOut)

\* C15 witness: attempts is 2, both invocations completed with one of the three
\* values and the poll settled by rejecting with the PollError
C15_Witness ==
  /\ attempts = NumInt(2)
  /\ pollCalls = <<0, 1>>
  /\ Len(pollResults) = 2
  /\ pollPc = "rejected"
  /\ pollOut.v = PollError

\* the last call before the n-th that was suspended, 0 if there is none
LastSlept(n) ==
  LET before == {m \in 1..(n - 1) : ilCalls[m].slept}
  IN  IF before = {} THEN 0 ELSE CHOOSE m \in before : \A x \in before : x <= m

\* the start of the window in which the n-th call is made: the return of the last
\* suspended call, or the creation of the limiter, which a run makes at time 0
WindowStartAt(n) == IF LastSlept(n) = 0 THEN 0 ELSE ilCalls[LastSlept(n)].ret

RECURSIVE SumAdded(_, _)
\* what the calls a..b added together
SumAdded(a, b) == IF a > b THEN 0 ELSE ilCalls[a].added + SumAdded(a + 1, b)

\* what was added in its window before the n-th call
CountAt(n) == SumAdded(LastSlept(n) + 1, n - 1)

\* the n-th call is the ilLimit-th of its window, in which every call added 1
LastOfOnes(n) ==
  /\ n - LastSlept(n) = ilLimit.n
  /\ \A m \in (LastSlept(n) + 1)..n : ilCalls[m].added = 1

\* C16: in sequential calls of one limiter, a call returns without suspending
\* exactly when what was added in the window, its own addition included, is less
\* than limit; a call that suspends does not return before interval milliseconds
\* have passed since the start of the window, and when they have already passed at
\* the call it asks for no wait and may return at once.
C16_SuspendsIffLimitReached ==
  \A n \in 1..Len(ilCalls) :
    LET c == ilCalls[n]
    IN  /\ ~c.slept <=> CountAt(n) + c.added < ilLimit.n
        /\ ~c.slept => c.ret = c.at
        /\ (c.slept /\ c.ret /= Pending) => c.ret >= WindowStartAt(n) + interval
        /\ (c.slept /\ c.at - WindowStartAt(n) >= interval) =>
             /\ c.ms <= 0
             /\ c.ret = Pending => wakeAt[c.by] = c.at

\* C16 witness: a first call stayed below the limit and returned at once; the
\* second reached it after the interval had passed and returned with no wait
C16_Witness ==
  /\ Len(ilCalls) = 2
  /\ ~ilCalls[1].slept
  /\ ilCalls[2].slept
  /\ ilCalls[2].at - WindowStartAt(2) > interval
  /\ ilCalls[2].ret = ilCalls[2].at

\* C17: count starts at 0 and startTimestamp at the creation time; between
\* sequential calls count is what the calls since the last suspended one added and
\* startTimestamp is the time at which that call resumed (the creation time if
\* there was none), so that a call below the limit adds to count and leaves
\* startTimestamp alone, and a call that reached the limit returns with count 0
\* and startTimestamp the time of its resumption.
C17_CountAndWindowStart ==
  ilPc = "made" =>
    /\ ilCalls = <<>> => (count = 0 /\ startTimestamp = 0)
    /\ (\A c \in Callers : callPc[c] = "idle") =>
         /\ count = CountAt(Len(ilCalls) + 1)
         /\ startTimestamp = WindowStartAt(Len(ilCalls) + 1)
         /\ (ilCalls /= <<>> /\ ilCalls[Len(ilCalls)].slept) =>
              (count = 0 /\ startTimestamp = ilCalls[Len(ilCalls)].ret)
    /\ (\E c \in Callers : callPc[c] = "sleeping") =>
         /\ count = CountAt(Len(ilCalls)) + ilCalls[Len(ilCalls)].added
         /\ startTimestamp = WindowStartAt(Len(ilCalls))

\* C17 witness: a call below the limit, then a call that reached it and resumed
\* later than the limiter was made, then a call below the limit in the new window
C17_Witness ==
  /\ Len(ilCalls) = 3
  /\ ~ilCalls[1].slept
  /\ ilCalls[2].slept
  /\ ilCalls[2].ret > 0
  /\ ~ilCalls[3].slept
  /\ count = ilCalls[3].added
  /\ startTimestamp = ilCalls[2].ret

\* C18, as stated: the limit-th of the calls of a window that each add 1 is
\* suspended for at least interval milliseconds before it returns.
C18_LastCallSuspendsForInterval ==
  \A n \in 1..Len(ilCalls) :
    (LastOfOnes(n) /\ ilCalls[n].ret /= Pending) =>
      /\ ilCalls[n].slept
      /\ ilCalls[n].ret - ilCalls[n].at >= interval

\* C18, amended: of the calls of a window that each add 1, the first limit - 1
\* return at once and the limit-th is suspended for what is left of the interval
\* since the start of the window: it does not return before interval milliseconds
\* have passed since the limiter was made or, in a later cycle, since the previous
\* suspended call returned.
C18_LastCallReturnsAfterWindow ==
  \A n \in 1..Len(ilCalls) :
    LastOfOnes(n) =>
      /\ \A m \in (LastSlept(n) + 1)..(n - 1) : ~ilCalls[m].slept
      /\ ilCalls[n].slept
      /\ ilCalls[n].ms = interval - (ilCalls[n].at - WindowStartAt(n))
      /\ ilCalls[n].ret /= Pending => ilCalls[n].ret - WindowStartAt(n) >= interval

\* C18 witness: limit 2 and interval 2; two cycles of two calls adding 1, the
\* second call of each cycle returning 2 milliseconds after the start of its window
C18_Witness ==
  /\ ilLimit = NumInt(2)
  /\ interval = 2
  /\ Len(ilCalls) = 4
  /\ LastOfOnes(2)
  /\ LastOfOnes(4)
  /\ ilCalls[2].ret = 2
  /\ ilCalls[4].ret = 4

\* the last call of the limiter that was suspended and has resumed, 0 if none
LastReset ==
  LET resets == {m \in 1..Len(ilCalls) : ilCalls[m].slept /\ ilCalls[m].ret /= Pending}
  IN  IF resets = {} THEN 0 ELSE CHOOSE m \in resets : \A x \in resets : x <= m

\* the elements whose callback was invoked since the start of the current window:
\* all invocations but those of the chunks reported up to the last reset
StartedInWindow == Len(calls) - SumAdded(1, LastReset)

\* C19: with the interval limiter as the limiter of allSettled, the number of
\* elements whose callback is invoked between the start of a window and its reset
\* never exceeds limit.
C19_AtMostLimitPerWindow ==
  (ilPc = "made" /\ fn = "allSettled") => StartedInWindow <= ilLimit.n

RECURSIVE Concat(_)
\* the concatenation of the chunks of a sequence of chunks
Concat(cs) == IF cs = <<>> THEN <<>> ELSE Head(cs) \o Concat(Tail(cs))

\* C20: for a chunk size that is a positive integer s, Infinity or omitted, chunk
\* returns groups whose concatenation is the input in order; no group is empty;
\* with size s every group but the last has exactly s elements and the last has
\* between 1 and s; with Infinity or no size there is at most one group.
C20_ChunksPartitionTheInput ==
  (chPc /= "start" /\ Default(chSize, PosInf) \in {PosInf} \cup {NumInt(n) : n \in 1..(MaxLen + 2)}) =>
    /\ chPc = "returned"
    /\ Concat(chOut) = chIterable
    /\ \A g \in 1..Len(chOut) : Len(chOut[g]) >= 1
    /\ IF Default(chSize, PosInf) = PosInf
         THEN Len(chOut) <= 1
         ELSE /\ \A g \in 1..(Len(chOut) - 1) : Len(chOut[g]) = chSize.n
              /\ chOut /= <<>> => Len(chOut[Len(chOut)]) \in 1..chSize.n

\* C20 witness: three elements in chunks of two give a full group and a last
\* group of one
C20_Witness ==
  /\ chPc = "returned"
  /\ chIterable = <<1, 2, 1>>
  /\ chSize = NumInt(2)
  /\ chOut = <<<<1, 2>>, <<1>>>>

\* C21: chunk returns the empty array for an empty input, whatever the size.
C21_EmptyInputGivesNoChunks ==
  (chPc /= "start" /\ chIterable = <<>>) => (chPc = "returned" /\ chOut = <<>>)

\* the size is a positive integer or Infinity, or is omitted
ValidSize(size) ==
  \/ size \in {Undef, PosInf}
  \/ size.k = "int" /\ size.n >= 1

\* C22: for a non-empty input chunk throws exactly when the size is neither a
\* positive integer nor Infinity (nor omitted): 0, negative sizes, fractions and
\* NaN throw; with Infinity or no size it returns one chunk holding all elements.
C22_ThrowsIffInvalidSize ==
  (chPc /= "start" /\ chIterable /= <<>>) =>
    /\ chPc = "threw" <=> ~ValidSize(chSize)
    /\ chPc = "returned" <=> ValidSize(chSize)
    /\ chSize \in {Undef, PosInf} => chOut = <<chIterable>>

\* C22 witness: three elements and the size Infinity give one chunk of three
C22_Witness ==
  /\ chPc = "returned"
  /\ chIterable = <<2, 1, 2>>
  /\ chSize = PosInf
  /\ chOut = <<<<2, 1, 2>>>>

\* C23, as stated: intervalLimiter returns a limiter function only for a limit
\* that is a positive number; with a limit that is missing or is not one, the
\* creation fails.
C23_FailsOnInvalidLimit ==
  ilPc = "made" => ilLimit \in IlLimits

\* C23, amended: intervalLimiter does not look at limit, and fails only when it
\* is called without an argument. With limit missing or NaN the limiter it
\* returns never suspends a call, whatever has been added; with limit zero or
\* negative it suspends every call.
C23_InvalidLimitIsNotRejected ==
  /\ ilPc = "threw" => ilCalls = <<>>
  /\ (ilPc = "made" /\ ilLimit \in {Undef, NaN}) =>
       \A n \in 1..Len(ilCalls) : ~ilCalls[n].slept /\ ilCalls[n].ret = ilCalls[n].at
  /\ (ilPc = "made" /\ ilLimit \in {NumInt(0), NumInt(-1)}) =>
       \A n \in 1..Len(ilCalls) : ilCalls[n].slept

\* C23 witness: a limiter made without a limit has been called MaxIlCalls times
\* and has returned at once each time
C23_Witness ==
  /\ ilPc = "made"
  /\ ilLimit = Undef
  /\ Len(ilCalls) = MaxIlCalls
  /\ count >= MaxIlCalls
  /\ \A n \in 1..Len(ilCalls) : ~ilCalls[n].slept

\* the string representation of any value: String(error)
StringOf(error) ==
  IF Nullish(error) THEN <<error.t>> ELSE ErrorToString(error)

\* the two-space-indented JSON array of the strings, piece by piece: "[",
\* then for the i-th string a line break, two spaces, the quoted string and a
\* comma unless it is the last, then a line break and "]"
RECURSIVE Pretty(_, _)
Pretty(strings, i) ==
  IF i > Len(strings) THEN <<"\n", "]">>
  ELSE <<"\n", "  ", "\"">> \o strings[i] \o <<"\"">>
       \o (IF i < Len(strings) THEN <<",">> ELSE <<>>) \o Pretty(strings, i + 1)

\* alert returned its argument: the same value
ReturnedSame == alPc = "returned" /\ alOut = alResult

\* the argument is absent, has no errors property or has an empty errors list
NothingToRaise ==
  \/ alResult.k # "object"
  \/ ~alResult.has
  \/ alResult.errors = <<>>

RECURSIVE DaysBeforeMonth(_, _)
DaysBeforeMonth(y, m) ==
  IF m = 1 THEN 0 ELSE DaysBeforeMonth(y, m - 1) + DaysInMonth(y, m - 1)

DayNumber(date) ==
  (IF date.year = 2023 THEN 0 ELSE 365) + DaysBeforeMonth(date.year, date.month) + date.day

\* len <= limit for the limit that applies, 1000 when none is passed
WithinLimit(len, lim) ==
  LET l == Default(lim, NumInt(DefaultLimit))
  IN  CASE l.k = "int" -> len <= l.n
        [] l.k = "frac" -> len <= l.n
        [] OTHER -> TRUE

\* the list starts at start, advances by exactly one day per entry, holds no
\* date after end, and is empty when start > end
RangeIsWellFormed ==
  /\ gdrOut # <<>> => gdrOut[1] = gdrStart
  /\ \A i \in 1..(Len(gdrOut) - 1) : DayNumber(gdrOut[i + 1]) = DayNumber(gdrOut[i]) + 1
  /\ \A i \in DOMAIN gdrOut : DateLeq(gdrOut[i], gdrEnd)
  /\ ~DateLeq(gdrStart, gdrEnd) => gdrOut = <<>>

\* C25: getDateRange respects its limit: for every start, end and limit the
\* returned list has at most limit dates; it starts at start, advances by
\* exactly one day per entry, contains no date after end, and is empty when
\* start > end
C25_AtMostLimitDates ==
  gdrPc = "returned" =>
    /\ WithinLimit(Len(gdrOut), gdrLimit)
    /\ RangeIsWellFormed

\* the callback of the last setNow call among the first n calls that was given
\* a function and was not followed by a resetNow; the system source otherwise
RECURSIVE LastInjected(_)
LastInjected(n) ==
  IF n = 0 THEN myNow
  ELSE IF nowCalls[n].op = "resetNow" THEN myNow
  ELSE IF nowCalls[n].callback.t = "function" THEN nowCalls[n].callback
  ELSE LastInjected(n - 1)

\* C26: setNow with a non-function argument throws "now must be a function"
\* and leaves the hook unchanged; after any sequence of setNow / resetNow calls
\* now is the callback of the last successful setNow since the last resetNow,
\* or the system source if there is none; resetNow always restores the system
\* source
C26_NowIsTheLastInjectedCallback ==
  /\ \A n \in DOMAIN nowCalls :
       /\ (nowCalls[n].op = "setNow" /\ nowCalls[n].callback.t # "function") =>
            nowCalls[n].threw = "now must be a function"
       /\ (nowCalls[n].op = "setNow" /\ nowCalls[n].callback.t = "function") =>
            nowCalls[n].threw = ""
  /\ nowHook = LastInjected(Len(nowCalls))

\* a function was injected, then setNow threw on a number and left it in place
C26_Witness ==
  /\ Len(nowCalls) >= 3
  /\ nowCalls[1].op = "resetNow"
  /\ nowCalls[2].callback = Value("function", "g")
  /\ nowCalls[3].callback = Value("number", "123")
  /\ nowCalls[3].threw = "now must be a function"
  /\ nowHook = Value("function", "g")

\* the smaller of two numbers
Min(a, b) == IF a < b THEN a ELSE b

\* C27: whichever path sortN takes, with the result asked in sorted order it
\* returns the first min(N, length) elements of the array sorted by the
\* comparator (the heap-based path included), and with mutate false the array
\* passed is left unchanged
C27_FirstNOfTheSortedArray ==
  snPc = "returned" =>
    /\ ~snUnsorted =>
         snOut.out = SubSeq(SortBy(snArray, snCompare), 1, Min(snN, Len(snArray)))
    /\ ~snMutate => snArrayAfter = snArray

\* the heap-based path was taken on [3, 1, 3, 2, 1] for N = 3, where an element
\* of the heap is replaced twice, and the array passed was not mutated
C27_Witness ==
  /\ snPc = "returned"
  /\ snOut.heap
  /\ ~snUnsorted /\ ~snMutate
  /\ snArray = <<3, 1, 3, 2, 1>>
  /\ snN = 3
  /\ snCompare = "ascending"
  /\ snOut.out = <<1, 1, 2>>
  /\ snArrayAfter = snArray

\* the poll promise has settled
PollSettled == pollOut.kind # "none"

\* C28: once a poll has settled (resolved, rejected with the task's error or
\* with PollError) its task is never invoked again, no timer set by the poll is
\* pending and no invocation is awaited, and the promise settles exactly once
C28_SettledPollIsOver ==
  [][ /\ PollSettled' =>
           /\ pollPc' \in {"resolved", "rejected"}
           /\ settleCalls' = 1
      /\ PollSettled =>
           /\ pollCalls' = pollCalls
           /\ pollOut' = pollOut
           /\ settleCalls' = settleCalls ]_vars

\* a poll resolved by its second invocation, after a timer
C28_Witness ==
  /\ pollPc = "resolved"
  /\ pollOut = [kind |-> "resolved", v |-> "0"]
  /\ pollCalls = <<0, 1>>
  /\ settleCalls = 1
  /\ ms = 1

\* While the call of caller c was suspended, the call of another caller
\* resumed and reset the window: it returned after the call of c was made.
ResetWhileSuspended(c) ==
  \E m \in DOMAIN ilCalls :
    /\ ilCalls[m].by # c
    /\ ilCalls[m].slept
    /\ ilCalls[m].ret # Pending
    /\ ilCalls[m].ret > ilCalls[Suspended(c)].at

\* C29: when calls on one interval limiter overlap, no reported addition is
\* lost: a call that resumes after another call has reset the window erases
\* nothing of the count accumulated since that reset and does not move the
\* start of the window in progress
C29_NoAdditionLostWhenCallsOverlap ==
  [][ \A c \in Callers :
        (callPc[c] = "sleeping" /\ callPc'[c] = "idle" /\ ResetWhileSuspended(c)) =>
          /\ count' >= count
          /\ startTimestamp' = startTimestamp ]_vars

\* throwFirstReject has rejected in a chunk
TfrRejectedInChunk ==
  /\ fn = "throwFirstReject"
  /\ Chunked
  /\ k >= 1
  /\ pc = "rejected"

\* every task of the current chunk has been invoked, none of a later chunk
ChunkInvoked ==
  /\ \A i \in ChunkIdx(k) : task[i].st # "idle"
  /\ Len(calls) = SumLens(chunked, k)

\* the outcome is the reason of the task of the current chunk that rejected
\* first in time
RejectedWithFirstInTime ==
  /\ \E n \in DOMAIN rejOrder : rejOrder[n] \in ChunkIdx(k)
  /\ LET first == rejOrder[CHOOSE n \in DOMAIN rejOrder :
                     /\ rejOrder[n] \in ChunkIdx(k)
                     /\ \A n2 \in 1..(n - 1) : rejOrder[n2] \notin ChunkIdx(k)]
     IN  out = RejectedWith(task[first].v)

\* a callback of the current chunk threw when invoked: the outcome is what it
\* threw, and the tasks after it in the chunk have not been invoked
ThrownInMap ==
  \E t \in ChunkIdx(k) :
    /\ task[t].st = "threw"
    /\ out = RejectedWith(task[t].v)
    /\ Len(calls) = t
    /\ \A i \in ChunkIdx(k) : (i < t => task[i].st # "idle") /\ (i > t => task[i] = IdleTask)

\* C30 (as stated): when throwFirstReject has rejected in a chunk that contains
\* a rejecting task, all tasks of that chunk have been invoked; the tasks still
\* in flight may settle afterwards, which does not change the outcome: the
\* reason of the task that rejected first in time
C30_ChunkInvokedAndOutcomeKept ==
  [][ /\ (TfrRejectedInChunk /\ \E i \in ChunkIdx(k) : task[i].st = "rejected")' =>
           (ChunkInvoked /\ RejectedWithFirstInTime)'
      /\ TfrRejectedInChunk => out' = out ]_vars

\* C30 (amended): the same when no callback of the chunk threw when invoked;
\* when one did, the call rejected with what it threw and the tasks after it in
\* the chunk are never invoked. Either way the tasks in flight may settle
\* afterwards and the outcome no longer changes.
C30_OutcomeKeptWhileTasksSettle ==
  [][ /\ TfrRejectedInChunk' =>
           IF \E i \in ChunkIdx(k') : task'[i].st = "threw"
             THEN ThrownInMap'
             ELSE (ChunkInvoked /\ RejectedWithFirstInTime)'
      /\ TfrRejectedInChunk => (out' = out /\ calls' = calls) ]_vars

\* throwFirstReject has rejected with the reason of the second task of a chunk
\* of three, whose first task has fulfilled since and whose third is in flight
C30_Witness ==
  /\ TfrRejectedInChunk
  /\ Len(chunked) = 1
  /\ Len(chunked[1]) = 3
  /\ rejOrder = <<2>>
  /\ task[1].st = "fulfilled"
  /\ task[3].st = "pending"
  /\ out = RejectedWith(task[2].v)

====
